---- MODULE Spec2Model ----
(***************************************************************************)
(* Verification model of the client-side scheduling logic of the           *)
(* MultiDriver_Hub desktop frontend:                                       *)
(*   - MainWindow   : health-check timer, periodic account refresh,        *)
(*                    single-shot retries (ui/main_window.py)              *)
(*   - SearchResults: search / default-view loads with the re-entrant      *)
(*                    event processing of set_loading (ui/search_results)  *)
(*   - UploadDialog / UploadWorker: the upload run (ui/upload_dialog.py)   *)
(* Each component has its own specification over its own variables.        *)
(***************************************************************************)
EXTENDS Integers, Sequences, FiniteSets, TLC

(***************************************************************************)
(* Bounds of the model (not program constants).                            *)
(***************************************************************************)
MaxFailures == 5      \* cap on health_check_failures and on the failure streak
MaxPending == 2       \* cap on the number of pending single-shot timers
MaxDepth == 2         \* cap on the nesting of search calls re-entered through processEvents
MaxReq == 3           \* cap on the number of search / default-view requests issued
ServerTotalPages == 2 \* number of result pages the backend reports
MaxFiles == 2         \* number of distinct files the user can select
MaxRuns == 2          \* cap on the number of upload workers started
TimeStep == 175       \* milliseconds by which the clock of the debounce timer advances in one step
MaxBurst == 2         \* cap on the counted input changes of one burst

(***************************************************************************)
(* Program constants of MainWindow (milliseconds).                         *)
(***************************************************************************)
max_health_check_interval == 900000
HealthTimerStart == 300000
StartupRefreshDelay == 5000
PeriodicRefreshDelay == 10000
RateLimitRetryDelay == 600000
SyncRefreshDelay == 2000
RetryBackoffCap == 900000
RetryBackoffBase == 30000
RetryBackoffMaxExp == 4
DEBOUNCE_MS == 350

Min(a, b) == IF a <= b THEN a ELSE b

VARIABLES
    \* ---- MainWindow ----
    backend_connected,      \* self.backend_connected
    health_check_failures,  \* self.health_check_failures
    health_interval,        \* self.health_timer.interval()
    timers_running,         \* FALSE once closeEvent stopped refresh_timer and health_timer
    singleshots,            \* pending QTimer.singleShot(d, self.refresh_accounts): their delays d, ascending
    startup_checked,        \* MainApp.check_backend_connection has run
    \* observation (history) variables of MainWindow
    fail_streak,            \* failed health checks since the last successful health check
    last_op,                \* the operation that ran last
    last_refresh_cooldown,  \* TRUE iff the last refresh_accounts started inside a rate-limit cooldown
    retry_delay             \* the back-off delay the last refresh_accounts computed, 0 if it computed none

VARIABLES
    \* ---- SearchResults ----
    search_text,            \* self.search_input.text()
    search_timer_active,    \* self.search_timer is running (debounce pending)
    search_timer_left,      \* milliseconds until the running search_timer expires
    sr_stack,               \* calls of perform_search / load_my_drive_files in progress, outermost first
    current_files,          \* self.current_files (which response is shown)
    current_pagination,     \* self.current_pagination
    previous_enabled,       \* self.previous_button.isEnabled()
    next_enabled,           \* self.next_button.isEnabled()
    loading_visible,        \* self.loading_label.isVisible()
    overlay,                \* text of the visible overlay_label, "" when hidden
    \* observation (history) variables of SearchResults
    req_counter,            \* number of requests issued so far (logical sequence number)
    applied_req,            \* sequence number of the request whose response is shown, 0 if none
    since_change,           \* milliseconds since the last textChanged of the input, capped at DEBOUNCE_MS
    burst,                  \* input changes of the current burst (changes made while the timer was pending)
    debounce_searches,      \* calls of perform_search made by the timer since the last textChanged
    refreshed               \* refresh_my_drive has been called from outside perform_search (F5, initial load)

searchVars == <<search_text, search_timer_active, search_timer_left, sr_stack, current_files,
                current_pagination, previous_enabled, next_enabled, loading_visible, overlay,
                req_counter, applied_req, since_change, burst, debounce_searches,
                refreshed>>

VARIABLES
    \* ---- UploadDialog / UploadWorker ----
    selected_files,         \* self.selected_files: the list object every worker iterates (file_paths is the same list)
    files_text_nonempty,    \* self.files_text holds some text
    upload_btn_enabled,     \* self.upload_btn.isEnabled()
    cancel_btn_enabled,     \* self.cancel_btn.isEnabled()
    select_btns_enabled,    \* self.select_files_btn / select_folder_btn .isEnabled()
    upload_worker,          \* self.upload_worker: 0 for None, else the number of the worker
    workers,                \* the UploadWorker threads created so far, by number
    run_count,              \* number of workers created
    sigq,                   \* finished signals queued for the dialog's thread, oldest first, by worker
    \* observation (history) variables of the upload
    status,                 \* status of the upload job of each file
    drained,                \* per worker: how often on_upload_finished ran for it
    cancel_requested        \* since the last start_upload, cancel_upload has set a cancel flag while a job was InProgress

uploadVars == <<selected_files, files_text_nonempty, upload_btn_enabled, cancel_btn_enabled,
                select_btns_enabled, upload_worker, workers, run_count, sigq, status, drained,
                cancel_requested>>

mainVars == <<backend_connected, health_check_failures, health_interval, timers_running,
              singleshots, startup_checked, fail_streak, last_op, last_refresh_cooldown,
              retry_delay>>

vars == <<mainVars, searchVars, uploadVars>>

(***************************************************************************)
(* MainWindow.  Time is abstracted: a running periodic timer may fire at   *)
(* any moment and pending single shots may expire in any order.  The       *)
(* rate-limit retry is the only single shot with RateLimitRetryDelay; it   *)
(* is started at the moment of the rate-limited result and lasts exactly   *)
(* the cooldown, so the cooldown is open iff such a timer is pending.      *)
(***************************************************************************)

\* outcomes of api_client.health_check() as check_backend_health sees them
HealthOutcomes == {"ok", "fail", "exception"}

\* outcomes of api_client.get_accounts() as refresh_accounts sees them
RefreshOutcomes == {"ok", "rate_limited", "connection_failed", "other_error", "exception"}

\* insert x into the ascending sequence s
RECURSIVE InsertSorted(_, _)
InsertSorted(s, x) ==
    IF s = <<>> THEN <<x>>
    ELSE IF x <= Head(s) THEN <<x>> \o s
    ELSE <<Head(s)>> \o InsertSorted(Tail(s), x)

\* s without its i-th element
RemoveAt(s, i) == SubSeq(s, 1, i - 1) \o SubSeq(s, i + 1, Len(s))

\* QTimer.singleShot(delay, self.refresh_accounts)
singleShot(shots, delay) == InsertSorted(shots, delay)

\* a rate-limit cooldown is open: a rate-limit retry is still pending
InCooldown(shots) == \E i \in 1..Len(shots) : shots[i] = RateLimitRetryDelay

\* min(self.max_health_check_interval, self.health_timer.interval() * (2 ** self.health_check_failures))
NextHealthIntervalNoCap(interval, failures) == interval * (2 ^ failures)
NextHealthInterval(interval, failures) ==
    Min(max_health_check_interval, interval * (2 ^ failures))

\* min(900000, 30000 * (2 ** min(self.health_check_failures, 4)))
RetryDelay(failures) ==
    Min(RetryBackoffCap, RetryBackoffBase * (2 ^ Min(failures, RetryBackoffMaxExp)))

InitMainWindow ==
    /\ backend_connected = FALSE
    /\ health_check_failures = 0
    /\ health_interval = HealthTimerStart
    /\ timers_running = TRUE
    /\ singleshots = <<StartupRefreshDelay>>
    /\ startup_checked = FALSE
    /\ fail_streak = 0
    /\ last_op = "init"
    /\ last_refresh_cooldown = FALSE
    /\ retry_delay = 0

\* MainWindow.set_backend_status
set_backend_status_connected(is_connected) == backend_connected' = TRUE
set_backend_status(is_connected) == backend_connected' = is_connected

\* MainApp.check_backend_connection: runs once, right after construction
check_backend_connection ==
    /\ UNCHANGED <<searchVars, uploadVars>>
    /\ ~startup_checked
    /\ startup_checked' = TRUE
    /\ \E ok \in BOOLEAN : set_backend_status(ok)
    /\ last_op' = "check_backend_connection"
    /\ UNCHANGED <<health_check_failures, health_interval, timers_running, singleshots,
                   fail_streak, last_refresh_cooldown, retry_delay>>

\* the body of MainWindow.refresh_accounts for one outcome of get_accounts;
\* shots is the list of pending single shots the call starts from
refresh_accounts(outcome, shots) ==
    /\ last_refresh_cooldown' = InCooldown(shots)
    /\ last_op' = "refresh_accounts"
    /\ retry_delay' = IF outcome = "exception" THEN RetryDelay(health_check_failures + 1) ELSE 0
    /\ CASE outcome = "ok" ->
              /\ set_backend_status(TRUE)
              /\ health_check_failures' = 0
              /\ singleshots' = shots
         [] outcome = "rate_limited" ->
              /\ Len(shots) < MaxPending
              /\ singleshots' = singleShot(shots, RateLimitRetryDelay)
              /\ UNCHANGED <<backend_connected, health_check_failures>>
         [] outcome = "connection_failed" ->
              /\ health_check_failures < MaxFailures
              /\ set_backend_status(FALSE)
              /\ health_check_failures' = health_check_failures + 1
              /\ singleshots' = shots
         [] outcome = "other_error" ->
              /\ singleshots' = shots
              /\ UNCHANGED <<backend_connected, health_check_failures>>
         [] outcome = "exception" ->
              /\ Len(shots) < MaxPending
              /\ health_check_failures < MaxFailures
              /\ set_backend_status(FALSE)
              /\ health_check_failures' = health_check_failures + 1
              /\ singleshots' = singleShot(shots, RetryDelay(health_check_failures + 1))

\* a pending QTimer.singleShot(..., self.refresh_accounts) expires
FireSingleShot ==
    /\ UNCHANGED <<searchVars, uploadVars>>
    /\ startup_checked
    /\ \E i \in 1..Len(singleshots) :
         \E outcome \in RefreshOutcomes :
            refresh_accounts(outcome, RemoveAt(singleshots, i))
    /\ UNCHANGED <<health_interval, timers_running, startup_checked, fail_streak>>

\* accounts_panel.account_updated is connected to refresh_accounts
AccountUpdated ==
    /\ UNCHANGED <<searchVars, uploadVars>>
    /\ startup_checked
    /\ \E outcome \in RefreshOutcomes : refresh_accounts(outcome, singleshots)
    /\ UNCHANGED <<health_interval, timers_running, startup_checked, fail_streak>>

\* MainWindow.on_sync_requested: a successful sync start schedules a refresh
on_sync_requested ==
    /\ UNCHANGED <<searchVars, uploadVars>>
    /\ startup_checked
    /\ last_op' = "on_sync_requested"
    /\ \E success \in BOOLEAN :
         IF success
         THEN /\ Len(singleshots) < MaxPending
              /\ singleshots' = singleShot(singleshots, SyncRefreshDelay)
         ELSE singleshots' = singleshots
    /\ UNCHANGED <<backend_connected, health_check_failures, health_interval,
                   timers_running, startup_checked, fail_streak, last_refresh_cooldown, retry_delay>>

\* MainWindow.periodic_refresh: refresh_timer.timeout
\* (APIClient has no is_rate_limited, so the hasattr test is false)
periodic_refresh ==
    /\ UNCHANGED <<searchVars, uploadVars>>
    /\ startup_checked
    /\ timers_running
    /\ last_op' = "periodic_refresh"
    /\ IF backend_connected /\ health_check_failures = 0
       THEN /\ Len(singleshots) < MaxPending
            /\ singleshots' = singleShot(singleshots, PeriodicRefreshDelay)
       ELSE singleshots' = singleshots
    /\ UNCHANGED <<backend_connected, health_check_failures, health_interval,
                   timers_running, startup_checked, fail_streak, last_refresh_cooldown, retry_delay>>

\* QTimer.setInterval on the health timer: an active timer is restarted with
\* the new interval and stays active, a stopped one stays stopped
setIntervalStops(active) == FALSE
setInterval(active) == active

\* MainWindow.check_backend_health: health_timer.timeout
check_backend_health ==
    /\ UNCHANGED <<searchVars, uploadVars>>
    /\ startup_checked
    /\ timers_running
    /\ \E outcome \in HealthOutcomes :
         IF outcome = "ok"
         THEN /\ set_backend_status(TRUE)
              /\ health_check_failures' = 0
              /\ health_interval' = health_interval
              /\ fail_streak' = 0
              /\ last_op' = "health_ok"
              /\ timers_running' = timers_running
         ELSE /\ health_check_failures < MaxFailures
              /\ fail_streak < MaxFailures
              /\ set_backend_status(FALSE)
              /\ health_check_failures' = health_check_failures + 1
              /\ health_interval' = NextHealthInterval(health_interval, health_check_failures + 1)
              /\ fail_streak' = fail_streak + 1
              /\ last_op' = "health_fail"
              /\ timers_running' = setInterval(timers_running)
    /\ UNCHANGED <<singleshots, startup_checked, last_refresh_cooldown, retry_delay>>

\* MainWindow.closeEvent: stops refresh_timer and health_timer (stopping a
\* stopped QTimer does nothing); pending single shots have no handle and
\* are left alone
closeEvent ==
    /\ UNCHANGED <<searchVars, uploadVars>>
    /\ startup_checked
    /\ timers_running' = FALSE
    /\ last_op' = "closeEvent"
    /\ UNCHANGED <<backend_connected, health_check_failures, health_interval, singleshots,
                   startup_checked, fail_streak, last_refresh_cooldown, retry_delay>>

NextMain ==
    \/ check_backend_connection
    \/ FireSingleShot
    \/ AccountUpdated
    \/ on_sync_requested
    \/ periodic_refresh
    \/ check_backend_health
    \/ closeEvent

(***************************************************************************)
(* SearchResults.  perform_search and load_my_drive_files block the UI     *)
(* thread during the HTTP call, but set_loading runs                       *)
(* QApplication.processEvents() before and after it: whatever event is     *)
(* pending then (key press, debounce expiry, auto-refresh tick, click) is  *)
(* handled inside the running call.  A frame of sr_stack is a call that    *)
(* stands in one of its two processEvents.                                 *)
(***************************************************************************)

Texts == {"", " ", "a", "b"}

\* str.strip() on the texts of the model
Strip(t) == IF t = " " THEN "" ELSE t

\* outcomes of api_client.search_files() as perform_search sees them
SearchOutcomes == {"ok", "fail", "exception"}

\* outcomes of load_my_drive_files: get_accounts fails, no account, search ok / fails / raises
LoadOutcomes == {"accounts_failed", "no_accounts", "ok", "fail", "exception"}

\* self.current_pagination.get(key, default) on an empty dict
EmptyPagination == [page |-> 1, totalPages |-> 1, hasPrev |-> FALSE, hasNext |-> FALSE]

\* data['pagination'] of the backend's answer for page p
ServerPagination(p) ==
    [page |-> p, totalPages |-> ServerTotalPages, hasPrev |-> p > 1, hasNext |-> p < ServerTotalPages]

\* the results of a response are identified by the query and page they answer
NoFiles == [query |-> "", page |-> 0]

InitSearchResults ==
    /\ search_text = ""
    /\ search_timer_active = FALSE
    /\ search_timer_left = 0
    /\ since_change = DEBOUNCE_MS
    /\ burst = 0
    /\ debounce_searches = 0
    /\ sr_stack = <<>>
    /\ current_files = NoFiles
    /\ current_pagination = EmptyPagination
    /\ previous_enabled = FALSE
    /\ next_enabled = FALSE
    /\ loading_visible = FALSE
    /\ overlay = ""
    /\ req_counter = 0
    /\ applied_req = 0
    /\ refreshed = FALSE

Top == sr_stack[Len(sr_stack)]
Pop == SubSeq(sr_stack, 1, Len(sr_stack) - 1)

\* search_input.clear() in refresh_my_drive: QLineEdit emits textChanged only
\* when the text really changes, that is when the input was not already empty
clear_emits_always(text) == TRUE
clear_emits(text) == text # ""

\* perform_search finds no query and goes through refresh_my_drive, whose
\* clear() changes the input
cleared_by_search == Strip(search_text) = "" /\ clear_emits(search_text)

\* SearchResults.perform_search up to the processEvents of set_loading(True):
\* reads the query, and with an empty query goes through refresh_my_drive
\* (which clears the input) into load_my_drive_files.  by names the caller:
\* "timer" (debounce expiry), "auto" (auto_refresh), "page" (next / previous
\* page), "enter" (returnPressed, search button).
perform_search(by) ==
    /\ Len(sr_stack) < MaxDepth
    /\ req_counter < MaxReq
    /\ req_counter' = req_counter + 1
    /\ loading_visible' = TRUE
    /\ LET query == Strip(search_text) IN
         IF query # ""
         THEN /\ sr_stack' = Append(sr_stack, [fn |-> "perform_search", pc |-> "set_loading_true",
                                               query |-> query, req |-> req_counter + 1,
                                               auto |-> (by = "auto"), by |-> by])
              /\ UNCHANGED search_text
         ELSE /\ sr_stack' = Append(sr_stack, [fn |-> "load_my_drive_files", pc |-> "set_loading_true",
                                               query |-> "", req |-> req_counter + 1,
                                               auto |-> (by = "auto"), by |-> by])
              /\ search_text' = ""

\* SearchResults.update_results followed by update_pagination_controls
update_results(files, pagination, req) ==
    /\ applied_req' = req
    /\ current_files' = files
    /\ current_pagination' = pagination
    /\ previous_enabled' = pagination.hasPrev
    /\ next_enabled' = pagination.hasNext
    /\ overlay' = ""

\* QTimer.start() of the single-shot search_timer: the time left after the
\* call, whatever was left of a pending expiry before it
search_timer_start_keep(left) == IF search_timer_active THEN left ELSE DEBOUNCE_MS
search_timer_start(left) == DEBOUNCE_MS

\* search_input.textChanged -> search_timer.start, when the text changed
textChanged(changed) ==
    IF changed
    THEN /\ search_timer_active' = TRUE
         /\ search_timer_left' = search_timer_start(search_timer_left)
         /\ since_change' = 0
         /\ burst' = IF search_timer_active THEN Min(burst + 1, MaxBurst) ELSE 1
         /\ debounce_searches' = 0
    ELSE UNCHANGED <<search_timer_active, search_timer_left, since_change, burst,
                     debounce_searches>>

\* time passes
Tick ==
    /\ since_change < DEBOUNCE_MS \/ (search_timer_active /\ search_timer_left > 0)
    /\ since_change' = Min(DEBOUNCE_MS, since_change + TimeStep)
    /\ search_timer_left' = IF search_timer_left > TimeStep THEN search_timer_left - TimeStep ELSE 0
    /\ UNCHANGED <<search_text, search_timer_active, sr_stack, current_files, current_pagination,
                   previous_enabled, next_enabled, loading_visible, overlay, req_counter,
                   applied_req, burst, debounce_searches>>
    /\ UNCHANGED refreshed
    /\ UNCHANGED <<mainVars, uploadVars>>

\* search_input.textChanged: the user edits the input; (re)starts the debounce timer
TextChanged ==
    /\ \E t \in Texts \ {search_text} : search_text' = t
    /\ textChanged(TRUE)
    /\ UNCHANGED <<sr_stack, current_files, current_pagination, previous_enabled, next_enabled,
                   loading_visible, overlay, req_counter, applied_req>>
    /\ UNCHANGED refreshed
    /\ UNCHANGED <<mainVars, uploadVars>>

\* search_timer.timeout -> perform_search
SearchTimerTimeout ==
    /\ search_timer_active
    /\ search_timer_left = 0
    /\ perform_search("timer")
    /\ IF cleared_by_search
       THEN \* the expired timer is started again by the clear() of refresh_my_drive
            /\ search_timer_active' = TRUE
            /\ search_timer_left' = DEBOUNCE_MS
            /\ since_change' = 0
            /\ burst' = 1
            /\ debounce_searches' = 0
       ELSE /\ search_timer_active' = FALSE
            /\ debounce_searches' = debounce_searches + 1
            /\ UNCHANGED <<search_timer_left, since_change, burst>>
    /\ UNCHANGED <<current_files, current_pagination, previous_enabled, next_enabled, overlay,
                   applied_req>>
    /\ UNCHANGED refreshed
    /\ UNCHANGED <<mainVars, uploadVars>>

\* refresh_timer.timeout -> SearchResults.auto_refresh -> perform_search
auto_refresh ==
    /\ perform_search("auto")
    /\ textChanged(cleared_by_search)
    /\ UNCHANGED <<current_files, current_pagination, previous_enabled, next_enabled, overlay,
                   applied_req>>
    /\ UNCHANGED refreshed
    /\ UNCHANGED <<mainVars, uploadVars>>

\* search_input.returnPressed / search_button.clicked -> perform_search
search_clicked ==
    /\ perform_search("enter")
    /\ textChanged(cleared_by_search)
    /\ UNCHANGED <<current_files, current_pagination, previous_enabled, next_enabled, overlay,
                   applied_req>>
    /\ UNCHANGED refreshed
    /\ UNCHANGED <<mainVars, uploadVars>>

\* F5, account deleted, initial load: SearchResults.refresh_my_drive
refresh_my_drive ==
    /\ Len(sr_stack) < MaxDepth
    /\ req_counter < MaxReq
    /\ req_counter' = req_counter + 1
    /\ search_text' = ""
    /\ textChanged(clear_emits(search_text))
    /\ loading_visible' = TRUE
    /\ sr_stack' = Append(sr_stack, [fn |-> "load_my_drive_files", pc |-> "set_loading_true",
                                     query |-> "", req |-> req_counter + 1,
                                     auto |-> FALSE, by |-> "refresh"])
    /\ UNCHANGED <<current_files, current_pagination, previous_enabled, next_enabled, overlay,
                   applied_req>>
    /\ refreshed' = TRUE
    /\ UNCHANGED <<mainVars, uploadVars>>

\* click on next_button -> SearchResults.next_page
next_page ==
    /\ next_enabled
    /\ IF current_pagination.page < current_pagination.totalPages
       THEN /\ current_pagination' = [current_pagination EXCEPT !.page = @ + 1]
            /\ perform_search("page")
            /\ textChanged(cleared_by_search)
       ELSE UNCHANGED <<current_pagination, sr_stack, req_counter, loading_visible, search_text,
                        search_timer_active, search_timer_left, since_change, burst,
                        debounce_searches>>
    /\ UNCHANGED <<current_files, previous_enabled, next_enabled, overlay, applied_req>>
    /\ UNCHANGED refreshed
    /\ UNCHANGED <<mainVars, uploadVars>>

\* click on previous_button -> SearchResults.previous_page
previous_page ==
    /\ previous_enabled
    /\ IF current_pagination.page > 1
       THEN /\ current_pagination' = [current_pagination EXCEPT !.page = @ - 1]
            /\ perform_search("page")
            /\ textChanged(cleared_by_search)
       ELSE UNCHANGED <<current_pagination, sr_stack, req_counter, loading_visible, search_text,
                        search_timer_active, search_timer_left, since_change, burst,
                        debounce_searches>>
    /\ UNCHANGED <<current_files, previous_enabled, next_enabled, overlay, applied_req>>
    /\ UNCHANGED refreshed
    /\ UNCHANGED <<mainVars, uploadVars>>

\* the innermost call leaves the processEvents of set_loading(True), makes its
\* (blocking) request, applies the answer and enters set_loading(False)
SearchRequest ==
    /\ sr_stack # <<>>
    /\ Top.pc = "set_loading_true"
    /\ sr_stack' = [sr_stack EXCEPT ![Len(sr_stack)].pc = "set_loading_false"]
    /\ loading_visible' = FALSE
    /\ IF Top.fn = "perform_search"
       THEN \E outcome \in SearchOutcomes :
              CASE outcome = "ok" ->
                     update_results([query |-> Top.query, page |-> current_pagination.page],
                                    ServerPagination(current_pagination.page), Top.req)
                [] outcome = "fail" ->
                     /\ overlay' = "Search failed"
                     /\ UNCHANGED <<current_files, current_pagination, previous_enabled, next_enabled,
                                    applied_req>>
                [] outcome = "exception" ->
                     /\ overlay' = "Error"
                     /\ UNCHANGED <<current_files, current_pagination, previous_enabled, next_enabled,
                                    applied_req>>
       ELSE \E outcome \in LoadOutcomes :
              IF outcome = "ok"
              THEN update_results([query |-> "", page |-> 1], ServerPagination(1), Top.req)
              ELSE UNCHANGED <<current_files, current_pagination, previous_enabled, next_enabled,
                               overlay, applied_req>>
    /\ UNCHANGED <<search_text, search_timer_active, search_timer_left, req_counter,
                   since_change, burst, debounce_searches>>
    /\ UNCHANGED refreshed
    /\ UNCHANGED <<mainVars, uploadVars>>

\* the innermost call leaves the processEvents of set_loading(False) and returns
SearchReturn ==
    /\ sr_stack # <<>>
    /\ Top.pc = "set_loading_false"
    /\ sr_stack' = Pop
    /\ UNCHANGED <<search_text, search_timer_active, search_timer_left, current_files,
                   current_pagination, previous_enabled, next_enabled, loading_visible, overlay,
                   req_counter, applied_req, since_change, burst, debounce_searches>>
    /\ UNCHANGED refreshed
    /\ UNCHANGED <<mainVars, uploadVars>>

NextSearch ==
    \/ Tick
    \/ TextChanged
    \/ search_clicked
    \/ SearchTimerTimeout
    \/ auto_refresh
    \/ refresh_my_drive
    \/ next_page
    \/ previous_page
    \/ SearchRequest
    \/ SearchReturn

(***************************************************************************)
(* UploadDialog and UploadWorker.  The worker is a QThread: its steps      *)
(* interleave with the dialog's handlers, and its signals reach the dialog *)
(* through the event queue of the dialog's thread (sigq).  start_upload    *)
(* hands self.selected_files itself to the worker, so the dialog and every *)
(* worker share one list.                                                  *)
(***************************************************************************)

Files == 1..MaxFiles
Runs == 1..MaxRuns

\* outcomes of api_client.upload_file() as UploadWorker.run sees them:
\* success, an error result, an exception raised inside the inner try
UploadOutcomes == {"ok", "error", "exception"}

Terminal == {"Completed", "Failed", "Cancelled"}

\* an UploadWorker that has not been created
NoWorker ==
    [pc |-> "none", pos |-> 0, cur |-> 0, total_files |-> 0, completed |-> 0,
     is_cancelled |-> FALSE, jobs |-> <<>>, failed |-> 0, cancelled |-> 0,
     errors |-> 0, progress |-> 0]

Range(seq) == {seq[i] : i \in 1..Len(seq)}

\* QThread.isRunning()
isRunning(w) == workers[w].pc \in {"begin", "loop", "uploading"}

InitUpload ==
    /\ selected_files = <<>>
    /\ files_text_nonempty = FALSE
    /\ upload_btn_enabled = FALSE
    /\ cancel_btn_enabled = FALSE
    /\ select_btns_enabled = TRUE
    /\ upload_worker = 0
    /\ workers = [w \in Runs |-> NoWorker]
    /\ run_count = 0
    /\ sigq = <<>>
    /\ status = [f \in Files |-> "None"]
    /\ drained = [w \in Runs |-> 0]
    /\ cancel_requested = FALSE

\* UploadDialog.update_upload_button (slot of files_text.textChanged)
update_upload_button(files) == upload_btn_enabled' = (Len(files) > 0)

\* UploadDialog.select_files: the file dialog returns one file not yet listed;
\* update_files_display sets the text, which re-evaluates the upload button
select_files ==
    /\ select_btns_enabled
    /\ \E f \in Files \ Range(selected_files) :
         /\ selected_files' = Append(selected_files, f)
         /\ status' = [status EXCEPT ![f] = "Queued"]
    /\ files_text_nonempty' = TRUE
    /\ update_upload_button(selected_files')
    /\ UNCHANGED <<cancel_btn_enabled, select_btns_enabled, upload_worker, workers, run_count,
                   sigq, drained, cancel_requested>>
    /\ UNCHANGED <<mainVars, searchVars>>

\* UploadDialog.clear_files (the button is never disabled): empties the shared
\* list; files_text.clear() emits textChanged only if there was text
clear_files ==
    /\ selected_files # <<>> \/ files_text_nonempty
    /\ selected_files' = <<>>
    /\ files_text_nonempty' = FALSE
    /\ IF files_text_nonempty
       THEN update_upload_button(selected_files')
       ELSE UNCHANGED upload_btn_enabled
    /\ status' = [f \in Files |->
                    IF f \in Range(selected_files) /\ status[f] # "InProgress"
                    THEN "None" ELSE status[f]]
    /\ UNCHANGED <<cancel_btn_enabled, select_btns_enabled, upload_worker, workers, run_count,
                   sigq, drained, cancel_requested>>
    /\ UNCHANGED <<mainVars, searchVars>>

\* the user types into files_text (an editable QTextEdit): textChanged -> update_upload_button
EditFilesText ==
    /\ \E nonempty \in BOOLEAN :
         /\ nonempty \/ files_text_nonempty
         /\ files_text_nonempty' = nonempty
    /\ update_upload_button(selected_files)
    /\ UNCHANGED <<selected_files, cancel_btn_enabled, select_btns_enabled, upload_worker,
                   workers, run_count, sigq, status, drained, cancel_requested>>
    /\ UNCHANGED <<mainVars, searchVars>>

\* UploadDialog.start_upload with an account selected and the confirmation answered Yes
start_upload ==
    /\ upload_btn_enabled
    /\ IF selected_files = <<>>
       THEN UNCHANGED <<upload_btn_enabled, cancel_btn_enabled, select_btns_enabled,
                        upload_worker, workers, run_count, cancel_requested>>
       ELSE /\ run_count < MaxRuns
            /\ run_count' = run_count + 1
            /\ upload_worker' = run_count + 1
            /\ workers' = [workers EXCEPT ![run_count + 1] =
                              [NoWorker EXCEPT !.pc = "begin", !.jobs = selected_files]]
            /\ upload_btn_enabled' = FALSE
            /\ cancel_btn_enabled' = TRUE
            /\ select_btns_enabled' = FALSE
            /\ cancel_requested' = FALSE
    /\ UNCHANGED <<selected_files, files_text_nonempty, sigq, status, drained>>
    /\ UNCHANGED <<mainVars, searchVars>>

\* UploadDialog.cancel_upload -> UploadWorker.cancel
cancel_upload ==
    /\ cancel_btn_enabled
    /\ IF upload_worker # 0 /\ isRunning(upload_worker)
       THEN /\ workers' = [workers EXCEPT ![upload_worker].is_cancelled = TRUE]
            /\ cancel_requested' = (\E f \in Files : status[f] = "InProgress")
       ELSE UNCHANGED <<workers, cancel_requested>>
    /\ UNCHANGED <<selected_files, files_text_nonempty, upload_btn_enabled, cancel_btn_enabled,
                   select_btns_enabled, upload_worker, run_count, sigq, status, drained>>
    /\ UNCHANGED <<mainVars, searchVars>>

\* UploadWorker.run, first statements: total_files = len(self.file_paths); completed = 0
WorkerBegin ==
    /\ \E w \in Runs :
         /\ workers[w].pc = "begin"
         /\ workers' = [workers EXCEPT ![w].pc = "loop",
                                       ![w].total_files = Len(selected_files),
                                       ![w].completed = 0]
    /\ UNCHANGED <<selected_files, files_text_nonempty, upload_btn_enabled, cancel_btn_enabled,
                   select_btns_enabled, upload_worker, run_count, sigq, status, drained,
                   cancel_requested>>
    /\ UNCHANGED <<mainVars, searchVars>>

\* "if self.is_cancelled: break": the number of upload_error signals emitted
\* for the n jobs the break skips
cancel_errors_each(n) == n
cancel_errors(n) == 0

\* UploadWorker.run, head of the loop: the list iterator yields the next path
\* or ends; with the cancel flag set the loop breaks; when the loop is left
\* run returns and QThread emits finished
WorkerNext ==
    /\ \E w \in Runs :
         /\ workers[w].pc = "loop"
         /\ LET pos == workers[w].pos IN
            IF pos < Len(selected_files)
            THEN IF workers[w].is_cancelled
                 THEN /\ workers' = [workers EXCEPT ![w].pc = "done", ![w].pos = pos + 1,
                                        ![w].cancelled = Len(selected_files) - pos,
                                        ![w].errors = @ + cancel_errors(Len(selected_files) - pos)]
                      /\ status' = [f \in Files |->
                                      IF /\ \E i \in (pos + 1)..Len(selected_files) : selected_files[i] = f
                                         /\ status[f] = "Queued"
                                      THEN "Cancelled" ELSE status[f]]
                      /\ sigq' = Append(sigq, w)
                 ELSE /\ workers' = [workers EXCEPT ![w].pc = "uploading", ![w].pos = pos + 1,
                                        ![w].cur = selected_files[pos + 1]]
                      /\ status' = [status EXCEPT ![selected_files[pos + 1]] = "InProgress"]
                      /\ UNCHANGED sigq
            ELSE /\ workers' = [workers EXCEPT ![w].pc = "done"]
                 /\ sigq' = Append(sigq, w)
                 /\ UNCHANGED status
    /\ UNCHANGED <<selected_files, files_text_nonempty, upload_btn_enabled, cancel_btn_enabled,
                   select_btns_enabled, upload_worker, run_count, drained, cancel_requested>>
    /\ UNCHANGED <<mainVars, searchVars>>

\* progress = int((completed / total_files) * 100)
Progress(completed, total_files) == (completed * 100) \div total_files

\* UploadWorker.run, body of the loop: upload_file returns or raises and the
\* worker emits upload_completed or upload_error and progress_updated.  The
\* slots of these three signals only set labels, the progress bar and message
\* boxes, so the signals are not queued here.  With total_files = 0 the
\* division raises after the upload succeeded, which the inner except reports
\* with upload_error.  The worker record keeps what it emitted: the number of
\* upload_error signals (errors) and the last progress value (progress).
WorkerUpload ==
    /\ \E w \in Runs :
         /\ workers[w].pc = "uploading"
         /\ \E outcome \in UploadOutcomes :
              LET f == workers[w].cur IN
              LET total == workers[w].total_files IN
              CASE outcome = "ok" ->
                     /\ status' = [status EXCEPT ![f] = "Completed"]
                     /\ workers' = [workers EXCEPT ![w].pc = "loop", ![w].cur = 0,
                                       ![w].completed = @ + 1,
                                       ![w].errors = IF total = 0 THEN @ + 1 ELSE @,
                                       ![w].progress =
                                          IF total = 0 THEN @
                                          ELSE Progress(workers[w].completed + 1, total)]
                [] outcome = "error" ->
                     /\ status' = [status EXCEPT ![f] = "Failed"]
                     /\ workers' = [workers EXCEPT ![w].pc = "loop", ![w].cur = 0,
                                       ![w].failed = @ + 1,
                                       ![w].errors = @ + 1,
                                       ![w].progress =
                                          IF total = 0 THEN @
                                          ELSE Progress(workers[w].completed, total)]
                [] outcome = "exception" ->
                     /\ status' = [status EXCEPT ![f] = "Failed"]
                     /\ workers' = [workers EXCEPT ![w].pc = "loop", ![w].cur = 0,
                                       ![w].failed = @ + 1,
                                       ![w].errors = @ + 1]
    /\ UNCHANGED <<selected_files, files_text_nonempty, upload_btn_enabled, cancel_btn_enabled,
                   select_btns_enabled, upload_worker, run_count, sigq, drained, cancel_requested>>
    /\ UNCHANGED <<mainVars, searchVars>>

\* the dialog's thread delivers the oldest queued finished signal:
\* UploadDialog.on_upload_finished
on_upload_finished ==
    /\ sigq # <<>>
    /\ sigq' = Tail(sigq)
    /\ upload_btn_enabled' = TRUE
    /\ cancel_btn_enabled' = FALSE
    /\ select_btns_enabled' = TRUE
    /\ drained' = [drained EXCEPT ![Head(sigq)] = @ + 1]
    /\ workers' = [workers EXCEPT ![Head(sigq)] = [NoWorker EXCEPT !.pc = "finished"]]
    /\ UNCHANGED <<selected_files, files_text_nonempty, upload_worker, run_count,
                   status, cancel_requested>>
    /\ UNCHANGED <<mainVars, searchVars>>

NextUpload ==
    \/ select_files
    \/ clear_files
    \/ EditFilesText
    \/ start_upload
    \/ cancel_upload
    \/ WorkerBegin
    \/ WorkerNext
    \/ WorkerUpload
    \/ on_upload_finished

(***************************************************************************)
(* Specifications                                                          *)
(***************************************************************************)
Init == InitMainWindow /\ InitSearchResults /\ InitUpload

SpecMain == Init /\ [][NextMain]_vars

\* health_timer is a periodic QTimer: while it is active and the event loop
\* runs, its timeout is delivered after at most the interval
SpecMainFair == SpecMain /\ WF_vars(check_backend_health)

SpecSearch == Init /\ [][NextSearch]_vars

\* One refresh of the default view and what follows from it without further
\* input: the user edits the input, then refresh_my_drive is called once and
\* only the timer and the calls in flight go on.  Time passes, a due timer
\* fires, a request returns (the HTTP client has a timeout) and processEvents
\* returns: weak fairness on these steps.
NextRefreshOnce ==
    \/ req_counter = 0 /\ ~refreshed /\ TextChanged
    \/ ~refreshed /\ refresh_my_drive
    \/ Tick
    \/ SearchTimerTimeout
    \/ SearchRequest
    \/ SearchReturn

SpecRefreshOnce ==
    /\ Init
    /\ [][NextRefreshOnce]_vars
    /\ WF_vars(Tick)
    /\ WF_vars(SearchTimerTimeout)
    /\ WF_vars(SearchRequest)
    /\ WF_vars(SearchReturn)

SpecUpload == Init /\ [][NextUpload]_vars

(***************************************************************************)
(* Claims about SearchResults                                              *)
(***************************************************************************)

\* C1: last request wins.  Of two search requests the one issued later
\* determines the visible results (current_files / current_pagination): once
\* the response of the later request is shown, the response of the earlier,
\* superseded request never replaces it, also when the later request was
\* issued by a perform_search re-entered from the event processing of
\* set_loading while the earlier one had read its query.
C1_LastRequestWins ==
    [][(current_files' # current_files /\ current_files.query # "" /\ current_files'.query # "")
         => applied_req' > applied_req]_vars

\* C2: a periodic refresh never overlaps itself: no execution of auto_refresh
\* is started while an earlier execution of auto_refresh is still in flight.
\* (MainWindow.refresh_accounts runs to completion inside one event and has
\* no event processing of its own, so only auto_refresh can be re-entered.)
AutoRefreshInFlight == {i \in 1..Len(sr_stack) : sr_stack[i].auto}
C2_NoSelfOverlap == Cardinality(AutoRefreshInFlight) <= 1

(***************************************************************************)
(* Claims about MainWindow                                                 *)
(***************************************************************************)

\* C3: for every sequence of health-check outcomes the interval of the health
\* timer stays within [BASE, MAX], BASE being the interval the timer is started
\* with and MAX being max_health_check_interval.
C3_HealthIntervalInRange ==
    /\ HealthTimerStart <= health_interval
    /\ health_interval <= max_health_check_interval

\* a second consecutive failure has driven the interval to the cap
C3_Witness ==
    /\ last_op = "health_fail"
    /\ fail_streak >= 2
    /\ health_interval = max_health_check_interval

\* C4: after exactly k consecutive failed health checks with no successful
\* health check in between, the interval equals min(BASE * 2^k, MAX): it is a
\* function of k alone.
C4_IntervalAfterKFailures ==
    last_op = "health_fail" =>
        health_interval = Min(HealthTimerStart * (2 ^ fail_streak), max_health_check_interval)

\* C5: a successful health check resets the failure counter to 0 and the
\* interval to BASE and sets the status to connected.
C5_SuccessResets ==
    last_op = "health_ok" =>
        /\ health_check_failures = 0
        /\ health_interval = HealthTimerStart
        /\ backend_connected

\* C6: after a rate-limited result of refresh_accounts no further execution of
\* refresh_accounts starts before the rate-limit cooldown has elapsed, whatever
\* triggers it (periodic tick, account_updated, sync request).
C6_NoRefreshDuringCooldown ==
    last_op = "refresh_accounts" => ~last_refresh_cooldown


\* C7: when a worker has left its loop, every job of its run is accounted
\* for: the jobs it completed, the jobs that failed and the jobs skipped by
\* cancellation add up to the number of jobs the run was started with.
C7_TalliesAddUp ==
    \A w \in Runs :
        workers[w].pc = "done" =>
            workers[w].completed + workers[w].failed + workers[w].cancelled
                = Len(workers[w].jobs)

\* C8: once cancel has been requested while a job was InProgress, no job that
\* was still queued is started.
C8_NoStartAfterCancel ==
    [][cancel_requested =>
         \A f \in Files : status'[f] = "InProgress" => status[f] = "InProgress"]_vars

\* C9: a job's status only moves Queued -> InProgress -> Completed or Failed,
\* or Queued -> Cancelled; a job in a terminal status never becomes Queued or
\* InProgress again.
C9_StatusMonotonic ==
    [][\A f \in Files :
         status'[f] # status[f] =>
            \/ status[f] = "Queued" /\ status'[f] \in {"InProgress", "Cancelled"}
            \/ status[f] = "InProgress" /\ status'[f] \in {"Completed", "Failed"}
            \/ status[f] = "None" /\ status'[f] = "Queued"
            \/ status[f] # "InProgress" /\ status'[f] = "None"]_vars

\* C10: the dialog announces the end of a run at most once, and when it does
\* every job the run was started with is Completed, Failed or Cancelled.
C10_DrainedOnceAfterLastJob ==
    [][\A w \in Runs :
         drained'[w] # drained[w] =>
            /\ drained[w] = 0
            /\ \A f \in Range(workers[w].jobs) : status[f] \in Terminal]_vars


\* C11: uploads are strictly sequential: at most one upload worker is running
\* and at most one upload job is in flight, whatever the user does in the
\* dialog while a worker runs.
RunningWorkers == {w \in Runs : isRunning(w)}
C11_OneWorkerRunning ==
    /\ Cardinality(RunningWorkers) <= 1
    /\ Cardinality({w \in Runs : workers[w].pc = "uploading"}) <= 1


\* C12: debounce coalescing.  Every change of the input restarts the timer, so
\* the timer calls perform_search only when DEBOUNCE_MS have passed since the
\* last change, and only once for the changes made since its last expiry.
C12_DebounceCoalesces ==
    [][(/\ Len(sr_stack') = Len(sr_stack) + 1
        /\ sr_stack'[Len(sr_stack')].by = "timer")
         => /\ since_change >= DEBOUNCE_MS
            /\ debounce_searches = 0]_vars

\* the timer has issued the one search of a burst of two or more changes
C12_Witness ==
    /\ sr_stack # <<>>
    /\ Top.by = "timer"
    /\ Top.query = "b"
    /\ burst >= 2
    /\ debounce_searches = 1


\* C13: a refresh started by a periodic tick runs only while the connection
\* status is Connected: the status is Connected at the tick that schedules it
\* and still Connected when the delayed refresh_accounts begins.
PendingPeriodic(shots) == {i \in 1..Len(shots) : shots[i] = PeriodicRefreshDelay}
C13_PeriodicRefreshOnlyConnected ==
    [][/\ Cardinality(PendingPeriodic(singleshots')) > Cardinality(PendingPeriodic(singleshots))
          => backend_connected
       /\ Cardinality(PendingPeriodic(singleshots')) < Cardinality(PendingPeriodic(singleshots))
          => backend_connected]_vars


\* C14: when the request of the innermost call fails (error response or
\* exception), the step that handles the failure leaves current_files as it
\* was and puts the view into an error state (an error overlay is shown).
RequestFailed ==
    /\ sr_stack # <<>>
    /\ Top.pc = "set_loading_true"
    /\ Len(sr_stack') = Len(sr_stack)
    /\ sr_stack'[Len(sr_stack')].pc = "set_loading_false"
    /\ applied_req' = applied_req
C14_FailureKeepsResults ==
    [][RequestFailed =>
         /\ current_files' = current_files
         /\ overlay' \in {"Search failed", "Error"}]_vars


\* C15: the connection state has one writer: the connection status and the
\* failure counter change only in a step of the health check.
C15_SingleWriter ==
    [][(backend_connected' # backend_connected \/ health_check_failures' # health_check_failures)
         => last_op' \in {"health_ok", "health_fail"}]_vars


\* C16: when the input becomes the empty string the default-view load is
\* issued in the same step, without waiting for the debounce timer, and no
\* perform_search request carries an empty query.
C16_EmptyInputLoadsAtOnce ==
    [][/\ (search_text # "" /\ search_text' = "")
            => /\ Len(sr_stack') = Len(sr_stack) + 1
               /\ sr_stack'[Len(sr_stack')].fn = "load_my_drive_files"
       /\ \A i \in 1..Len(sr_stack') :
            sr_stack'[i].fn = "perform_search" => sr_stack'[i].query # ""]_vars


\* C17: a request issued by next_page / previous_page is a search for the
\* query of the results on display and for the page after / before the page
\* on display; and when no request is in progress and the last applied
\* response has a next (previous) page, next_page (previous_page) is not a
\* no-op.
PageRequestIssued ==
    /\ Len(sr_stack') = Len(sr_stack) + 1
    /\ sr_stack'[Len(sr_stack')].by = "page"
C17_PagingReusesQuery ==
    /\ []((sr_stack = <<>> /\ next_enabled)
            => current_pagination.page < current_pagination.totalPages)
    /\ []((sr_stack = <<>> /\ previous_enabled) => current_pagination.page > 1)
    /\ [][PageRequestIssued =>
            /\ sr_stack'[Len(sr_stack')].fn = "perform_search"
            /\ sr_stack'[Len(sr_stack')].query = current_files.query
            /\ current_pagination'.page \in {current_files.page + 1, current_files.page - 1}]_vars


\* C18: the response applied for a search that the debounce timer issued is
\* the response for page 1, whatever page was on display before.
C18_DebounceSearchPageOne ==
    [][(/\ sr_stack # <<>>
        /\ Top.by = "timer"
        /\ Top.fn = "perform_search"
        /\ Top.pc = "set_loading_true"
        /\ applied_req' = Top.req)
         => current_files'.page = 1]_vars


\* C19: a failed health check is never the last one: after the k-th failure
\* in a row another health check is performed (the streak of failures moves
\* on from k) unless the window is closed first, and no step other than
\* closeEvent stops the timers.
C19_HealthCheckNeverFatal ==
    /\ \A k \in 1..MaxFailures :
         (last_op = "health_fail" /\ fail_streak = k)
            ~> (fail_streak # k \/ last_op = "closeEvent")
    /\ [][(timers_running /\ ~timers_running') => last_op' = "closeEvent"]_vars

\* a health check that failed right after an earlier failure
C19_Witness == last_op = "health_fail" /\ fail_streak >= 2 /\ timers_running


\* C20: once closeEvent has stopped the timers no health check, periodic
\* tick or account refresh is executed any more (a single shot scheduled
\* before the stop included), and a second closeEvent changes nothing.
C20_StopHaltsScheduling ==
    /\ [][~timers_running =>
            last_op' \notin {"health_ok", "health_fail", "periodic_refresh",
                             "refresh_accounts"}]_vars
    /\ [][(~timers_running /\ last_op' = "closeEvent") =>
            UNCHANGED <<backend_connected, health_check_failures, health_interval,
                        timers_running, singleshots>>]_vars


\* C21: jobs are started in the order in which they were selected: when a
\* worker starts a job of its run, every job that stood before it in the list
\* the run was started with has been started before.
C21_FifoStart ==
    [][\A w \in Runs :
         (workers'[w].pc = "uploading" /\ workers[w].pc = "loop") =>
            LET jb == workers[w].jobs IN
            \A j \in 1..Len(jb) : \A i \in 1..(j - 1) :
               jb[j] = workers'[w].cur =>
                  status[jb[i]] \in {"InProgress", "Completed", "Failed"}]_vars

\* C22: the retry delay refresh_accounts computes when the failure counter
\* has reached k is min(MAX, BASE * 2^k) for k = 1, 3 and 5, that is 60 s,
\* 240 s and the cap of 900 s.
C22_BackoffExamples ==
    [][(last_op' = "refresh_accounts" /\ retry_delay' # 0) =>
          \A k \in {1, 3, 5} :
             health_check_failures' = k =>
                retry_delay' = Min(RetryBackoffCap, RetryBackoffBase * (2 ^ k))]_vars


\* C25: at most one delayed retry of refresh_accounts is pending at any time:
\* among the pending single shots at most one is a rate-limit retry, a
\* back-off retry or the delayed call of the periodic tick.
RetryDelays ==
    {RateLimitRetryDelay, PeriodicRefreshDelay} \cup {RetryDelay(k) : k \in 1..MaxFailures}
PendingRetries(shots) == {i \in 1..Len(shots) : shots[i] \in RetryDelays}
C25_OneRetryPending == Cardinality(PendingRetries(singleshots)) <= 1


\* C26: whenever the status is Connected the failure counter is 0.
C26_ConnectedMeansNoFailures == backend_connected => health_check_failures = 0

\* connected again, by a refresh, after failed health checks
C26_Witness ==
    backend_connected /\ last_op = "refresh_accounts" /\ fail_streak >= 1


\* C27: whenever no call is in flight and results are on display, the
\* pagination cursor is the page of the results on display; in particular a
\* page change whose request failed leaves the cursor where it was.
C27_CursorMatchesDisplay ==
    (sr_stack = <<>> /\ current_files.page # 0)
        => current_pagination.page = current_files.page


\* C28: the loading indicator is off when no call is in flight, and it is on
\* as long as some call has shown it and has not yet reached its own
\* set_loading(False), a nested call that completes in between included.
C28_LoadingWhileInFlight ==
    /\ sr_stack = <<>> => ~loading_visible
    /\ (\E i \in 1..Len(sr_stack) : sr_stack[i].pc = "set_loading_true") => loading_visible


\* C29: after one call of refresh_my_drive, whatever the input held, the
\* debounce timer is eventually not pending and stays so, with no call left
\* in flight: the loads that follow the refresh come to an end.
C29_RefreshSettles == refreshed ~> [](~search_timer_active /\ sr_stack = <<>>)

\* the refresh cleared a non-empty input, the re-armed timer fired and loaded
\* the default view once more, and everything is at rest
C29_Witness ==
    /\ refreshed
    /\ applied_req >= 2
    /\ ~search_timer_active
    /\ sr_stack = <<>>
    /\ debounce_searches = 1


\* C23: while a worker is running no dialog operation changes the list of
\* jobs it processes, and when a worker has left its loop every job that was
\* in the list when its run started is Completed, Failed or Cancelled.
C23_JobsOnlyChangedByRunner ==
    /\ [][(\E w \in Runs : isRunning(w)) => selected_files' = selected_files]_vars
    /\ [](\A w \in Runs :
            workers[w].pc = "done" =>
               \A f \in Range(workers[w].jobs) : status[f] \in Terminal)


\* C24: in a run whose cancel flag has been set the worker has emitted one
\* upload_error for every job whose upload call failed and none for anything
\* else, the jobs skipped because of the flag included.
C24_ErrorsAreFailures ==
    \A w \in Runs : workers[w].is_cancelled => workers[w].errors = workers[w].failed

\* a cancelled run: one job failed and was reported, one was skipped
C24_Witness ==
    \E w \in Runs :
        /\ workers[w].pc = "done"
        /\ workers[w].is_cancelled
        /\ workers[w].cancelled >= 1
        /\ workers[w].errors >= 1


\* C30: the progress a worker reports stays within 0..100, never decreases
\* during its run, and is 100 at the end of the run exactly when every job
\* the run was started with was uploaded successfully.
C30_ProgressWithinBounds ==
    /\ [](\A w \in Runs :
            /\ workers[w].progress \in 0..100
            /\ workers[w].pc = "done" =>
                 (workers[w].progress = 100 <=>
                    workers[w].completed = Len(workers[w].jobs)))
    /\ [][\A w \in Runs :
            (isRunning(w) /\ workers'[w].pc # "finished")
               => workers'[w].progress >= workers[w].progress]_vars

====
